---- MODULE Spec2Model ----
(***************************************************************************)
(* The RAG orchestration core of backend/agents/langgraph_agent.py:        *)
(* LangGraphAgent.process_query, process_query_streaming and               *)
(* get_chat_history over the three-node graph                              *)
(*   generate_queries -> retrieve_context -> generate_response             *)
(* with a checkpointer (the thread state store) keyed by thread id.        *)
(*                                                                         *)
(* One thread id is modelled: `store` is that thread's latest checkpoint.  *)
(* Text is a sequence of atoms; the atom " " is a blank and "NL" a newline *)
(* (both are whitespace for str.strip / str.split), every other atom is a  *)
(* run of non-whitespace characters.                                       *)
(*                                                                         *)
(* The graph engine (langgraph) is a library: its behaviour is modelled as *)
(* documented.  A run loads the thread's latest checkpoint into run-local  *)
(* channels, applies its input through the channels' reducers, writes a    *)
(* checkpoint, then runs the nodes in edge order, applying each node's     *)
(* update and writing a checkpoint after each node.  The `messages`        *)
(* channel has the add_messages reducer (merge by message id), every other *)
(* channel keeps the last value written.                                   *)
(***************************************************************************)
EXTENDS Integers, Sequences, FiniteSets, TLC

(* ---------------- bounds of the model ---------------- *)
NumProcs == 2
MaxCalls == 2
MaxExpLen == 3
MaxHits == 3
MaxAnsLen == 4
MaxStoreFaults == 1
MaxInits == 2

(* ---------------- program constants ---------------- *)
DefaultLimit == 50
RetrieverLimit == 5
SourcesCap == 5

Procs == 1..NumProcs

(* ---------------- text ---------------- *)
IsSpace(c) == c \in {" ", "NL"}

Take(s, n) == SubSeq(s, 1, IF n < Len(s) THEN n ELSE Len(s))

RECURSIVE LStrip(_)
LStrip(s) == IF s # <<>> /\ IsSpace(Head(s)) THEN LStrip(Tail(s)) ELSE s

RECURSIVE RStrip(_)
RStrip(s) ==
    IF s # <<>> /\ IsSpace(s[Len(s)]) THEN RStrip(SubSeq(s, 1, Len(s) - 1)) ELSE s

\* str.strip()
Strip(s) == RStrip(LStrip(s))

\* str.split(sep) for a one-character sep: k separators give k+1 pieces, empty
\* pieces included.
RECURSIVE SplitOn(_, _)
SplitOn(s, sep) ==
    IF \A i \in 1..Len(s) : s[i] # sep
    THEN <<s>>
    ELSE LET i == CHOOSE j \in 1..Len(s) :
                      s[j] = sep /\ \A k \in 1..(j - 1) : s[k] # sep
         IN  <<SubSeq(s, 1, i - 1)>> \o SplitOn(SubSeq(s, i + 1, Len(s)), sep)

\* str.split() without arguments: the maximal runs of non-whitespace.
RECURSIVE SplitWords(_)
SplitWords(s) ==
    LET t == LStrip(s)
    IN  IF t = <<>>
        THEN <<>>
        ELSE LET n == CHOOSE j \in 1..Len(t) :
                          /\ \A k \in 1..j : ~IsSpace(t[k])
                          /\ (j = Len(t) \/ IsSpace(t[j + 1]))
             IN  <<SubSeq(t, 1, n)>> \o SplitWords(SubSeq(t, n + 1, Len(t)))

RECURSIVE SeqsUpTo(_, _)
SeqsUpTo(S, n) ==
    IF n = 0
    THEN {<<>>}
    ELSE LET shorter == SeqsUpTo(S, n - 1)
         IN  shorter \cup {Append(s, c) : s \in shorter, c \in S}

RECURSIVE Flatten(_)
Flatten(ss) == IF ss = <<>> THEN <<>> ELSE Head(ss) \o Flatten(Tail(ss))

(* ---------------- values of the graph state ---------------- *)
\* Optional[T]: None is <<>>, a value v is <<v>>.
None == <<>>
Some(v) == <<v>>
\* Python truthiness of an Optional list or string: neither None nor empty.
Truthy(opt) == opt # None /\ opt[1] # <<>>

\* HumanMessage(content=...) / AIMessage(content=...): id 0 is "no id yet".
HumanMessage(content) == [id |-> 0, type |-> "human", content |-> content]
AIMessage(content) == [id |-> 0, type |-> "ai", content |-> content]

\* The channels of LangGraphState before any input was applied.
EmptyChannels ==
    [messages |-> <<>>, project_id |-> "", generated_queries |-> None,
     retrieval_results |-> None, final_response |-> None]

\* add_messages gives every message without an id a fresh one (uuid4).
RECURSIVE AssignIds(_, _)
AssignIds(msgs, next) ==
    IF msgs = <<>>
    THEN <<>>
    ELSE IF Head(msgs).id = 0
         THEN <<[Head(msgs) EXCEPT !.id = next]>> \o AssignIds(Tail(msgs), next + 1)
         ELSE <<Head(msgs)>> \o AssignIds(Tail(msgs), next)

CountNew(msgs) == Cardinality({i \in DOMAIN msgs : msgs[i].id = 0})

\* Mutant: the channel has no reducer and keeps the last value written.
AddMessagesNoReducer(left, right) == right

\* add_messages(left, right): a right message whose id is already in left
\* replaces that message in place, any other is appended.
RECURSIVE AddMessages(_, _)
AddMessages(left, right) ==
    IF right = <<>>
    THEN left
    ELSE LET m == Head(right)
             at == {i \in DOMAIN left : left[i].id = m.id}
         IN  IF at # {}
             THEN AddMessages([left EXCEPT ![CHOOSE i \in at : TRUE] = m], Tail(right))
             ELSE AddMessages(Append(left, m), Tail(right))

\* One update (the graph input or a node's return value) applied to the
\* channels: `messages` through its reducer, the other keys by overwriting.
ApplyWrites(values, update, next) ==
    [messages |->
        IF "messages" \in DOMAIN update
        THEN AddMessages(values.messages, AssignIds(update.messages, next))
        ELSE values.messages,
     project_id |->
        IF "project_id" \in DOMAIN update THEN update.project_id ELSE values.project_id,
     generated_queries |->
        IF "generated_queries" \in DOMAIN update
        THEN update.generated_queries ELSE values.generated_queries,
     retrieval_results |->
        IF "retrieval_results" \in DOMAIN update
        THEN update.retrieval_results ELSE values.retrieval_results,
     final_response |->
        IF "final_response" \in DOMAIN update
        THEN update.final_response ELSE values.final_response]

NewIds(update) == IF "messages" \in DOMAIN update THEN CountNew(update.messages) ELSE 0

(* ---------------- fixed texts of the nodes (abridged to their first words) ---------------- *)
IssueText == <<"I", " ", "encountered", " ", "an", " ", "issue">>
NoQueriesText == <<"No", " ", "queries", " ", "generated">>
ProjectMissingText == <<"Project", " ", "ID", " ", "not", " ", "provided">>
NoResponseText == <<"No", " ", "response", " ", "generated">>
NoInfoFallback(user_message) ==
    <<"I-don't-have-information-about", " ", "'">> \o user_message \o <<"'.">>
TechnicalIssueFallback(user_message) ==
    <<"I-encountered-a-technical-issue-about", " ", "'">> \o user_message \o <<"'.">>

LastUserMessage(state) ==
    IF state.messages # <<>> THEN state.messages[Len(state.messages)].content ELSE <<>>

(* ---------------- the collaborators' answers ---------------- *)
Min(a, b) == IF a < b THEN a ELSE b

UserTexts == {<<"x">>, <<"y">>}
\* project_id "" is a missing project id.
ProjectIds == {"p1", ""}

\* model.ainvoke of the Query Expander: it raises, or answers with a text.
ExpAlphabet == {"e", " ", "NL"}
ExpanderOutcomes ==
    {[kind |-> "raise", content |-> <<>>]}
        \cup {[kind |-> "ok", content |-> c] : c \in SeqsUpTo(ExpAlphabet, MaxExpLen)}

\* async_retriever_tool for one query: the search raises inside the tool, or
\* returns up to limit=5 hits.
RetrieverOutcomes ==
    {[kind |-> "raise", n |-> 0]}
        \cup {[kind |-> "ok", n |-> k] : k \in 0..Min(MaxHits, RetrieverLimit)}

\* model.ainvoke of the Answer Generator: it raises, or answers with a message
\* that has a content (an AIMessage always has one, so the "No response
\* generated" alternative of line 256 is never taken).
AnsAlphabet == {"a", " "}
GeneratorOutcomes ==
    {[kind |-> "raise", content |-> <<>>]}
        \cup {[kind |-> "ok", content |-> c] : c \in SeqsUpTo(AnsAlphabet, MaxAnsLen)}

\* The k-th hit retrieve_knowledge returns for a query.
Hit(query, k) == [text |-> <<"passage-for">> \o query, source_url |-> k, score |-> k]

\* What the expander did: it raised, it answered with nothing but whitespace,
\* or it answered with at least one line of text.
ExpanderVerdict(out) ==
    IF out.kind = "raise" THEN "raised"
    ELSE IF \A i \in DOMAIN out.content : IsSpace(out.content[i]) THEN "empty"
    ELSE "ok"

(* ---------------- the three nodes ---------------- *)
\* Lines 156-157: the stripped, non-empty lines of the stripped answer.
ParseQueries(content) ==
    LET lines == SplitOn(Strip(content), "NL")
        stripped == [i \in DOMAIN lines |-> Strip(lines[i])]
    IN  SelectSeq(stripped, LAMBDA q : q # <<>>)

\* Mutant: the fallback forgets the user's own text.
GenerateQueriesFallbackEmpty(user_message) ==
    [generated_queries |-> Some(<<>>), final_response |-> Some(IssueText)]

\* _generate_queries_node: the update it returns.
GenerateQueriesFallback(user_message) ==
    [generated_queries |-> Some(<<user_message>>), final_response |-> Some(IssueText)]

GenerateQueriesNode(state, out) ==
    LET user_message == LastUserMessage(state)
    IN  IF out.kind = "raise"
        THEN GenerateQueriesFallback(user_message)
        ELSE LET additional_queries == ParseQueries(out.content)
             IN  IF additional_queries = <<>>
                 \* additional_queries.pop(0) raises IndexError on an empty list
                 THEN GenerateQueriesFallback(user_message)
                 ELSE [generated_queries |->
                          Some(<<user_message>> \o Tail(additional_queries))]

\* async_retriever_tool: its own except turns a failed search into [].
AsyncRetrieverTool(query, out) ==
    IF out.kind = "raise" THEN <<>> ELSE [k \in 1..out.n |-> Hit(query, k)]

RetrieveShortCircuit(state) ==
    ~Truthy(state.generated_queries) \/ state.project_id = ""

\* Mutant: each query's hits replace the list instead of extending it.
RetrieveContextNodeLastOnly(state, outs) ==
    IF ~Truthy(state.generated_queries)
    THEN [retrieval_results |-> Some(<<>>), final_response |-> Some(NoQueriesText)]
    ELSE IF state.project_id = ""
    THEN [retrieval_results |-> Some(<<>>), final_response |-> Some(ProjectMissingText)]
    ELSE LET queries == state.generated_queries[1]
         IN  [retrieval_results |->
                 Some(AsyncRetrieverTool(queries[Len(queries)], outs[Len(queries)]))]

\* _retrieve_context_node: outs[i] is the retriever's answer to the i-th query.
RetrieveContextNode(state, outs) ==
    IF ~Truthy(state.generated_queries)
    THEN [retrieval_results |-> Some(<<>>), final_response |-> Some(NoQueriesText)]
    ELSE IF state.project_id = ""
    THEN [retrieval_results |-> Some(<<>>), final_response |-> Some(ProjectMissingText)]
    ELSE LET queries == state.generated_queries[1]
         IN  [retrieval_results |->
                 Some(Flatten([i \in DOMAIN queries |->
                                  AsyncRetrieverTool(queries[i], outs[i])]))]

\* Mutant: the generator is called before the results are looked at.
GeneratorInvokedAlways(state) == TRUE

\* Whether _generate_response_node gets as far as the Answer Generator.
GeneratorInvoked(state) == Truthy(state.retrieval_results)

\* The text _generate_response_node answers with.
ResponseText(state, out) ==
    LET user_message == LastUserMessage(state)
    IN  IF ~Truthy(state.retrieval_results)
        THEN NoInfoFallback(user_message)
        ELSE IF out.kind = "raise"
        THEN TechnicalIssueFallback(user_message)
        ELSE out.content

\* Mutant: the answer is returned as final_response only, with no message.
GenerateResponseNodeNoMessage(state, out) ==
    [final_response |-> Some(ResponseText(state, out))]

\* Mutant: after a generator failure the message and final_response differ.
GenerateResponseNodeTwoTexts(state, out) ==
    LET text == ResponseText(state, out)
    IN  [messages |-> <<AIMessage(IF out.kind = "raise" THEN NoResponseText ELSE text)>>,
         final_response |-> Some(text)]

\* _generate_response_node: the update it returns.
GenerateResponseNode(state, out) ==
    LET text == ResponseText(state, out)
    IN  [messages |-> <<AIMessage(text)>>, final_response |-> Some(text)]

\* Mutant: the first two edges are exchanged.
NextNodeSwapped(node) ==
    CASE node = "START" -> "retrieve_context"
      [] node = "retrieve_context" -> "generate_queries"
      [] node = "generate_queries" -> "generate_response"
      [] node = "generate_response" -> "END"

\* _build_graph_builder, lines 94-97: the edges of the graph.
NextNode(node) ==
    CASE node = "START" -> "generate_queries"
      [] node = "generate_queries" -> "retrieve_context"
      [] node = "retrieve_context" -> "generate_response"
      [] node = "generate_response" -> "END"

\* The compiled graph run from its input to END (lines 94-97): each node's
\* update is applied to the channels before the next node reads them.
\* expanded, found and answered are what the three collaborators do.
InvokeGraph(values, input, expanded, found, answered, next) ==
    LET s0 == ApplyWrites(values, input, next)
        s1 == ApplyWrites(s0, GenerateQueriesNode(s0, expanded), next + NewIds(input))
        s2 == ApplyWrites(s1, RetrieveContextNode(s1, found), next + NewIds(input))
    IN  ApplyWrites(s2, GenerateResponseNode(s2, answered), next + NewIds(input))

\* What a node that has run leaves in the run's trace.
Ran(node, update) == [node |-> node, keys |-> DOMAIN update]

(* ---------------- state ---------------- *)
VARIABLES
    store,      \* the thread's latest checkpoint: has, values, writes (the pending
                \* writes saved for the step after it), by (the run that wrote it)
    nextId,     \* the next fresh message id
    pc,         \* pc[p]: where call p stands
    run,        \* run[p]: the local variables of call p
    events,     \* events[p]: what the streaming generator of call p has yielded
    result,     \* result[p]: what the last finished call of p returned
    faults,     \* store I/O failures so far
    budget,     \* how many store I/O failures the behaviour may see
    genCalls,   \* genCalls[p]: Answer Generator invocations of call p
    calls,      \* calls started so far
    log,        \* the finished process_query / process_query_streaming calls, in order
    hist,       \* the last get_chat_history answer, and how many calls had finished
    agent,      \* the fields of the LangGraphAgent singleton
    contexts,   \* contexts[k]: the k-th checkpointer context that was created
    task        \* task[p]: where p stands in initialize / cleanup / a first call

vars ==
    <<store, nextId, pc, run, events, result, faults, budget, genCalls, calls, log, hist,
      agent, contexts, task>>

\* The variables of the calls, which initialize and cleanup leave alone.
callVars == <<store, nextId, pc, run, events, result, genCalls, calls, log, hist>>

NoStore == [has |-> FALSE, values |-> EmptyChannels, writes |-> None, by |-> 0]
\* checkpointer.aput by run p: the new latest checkpoint, with no pending writes.
Checkpoint(p, values) == [has |-> TRUE, values |-> values, writes |-> None, by |-> p]
\* checkpointer.aput_writes by run p: the writes of a finished node, attached to
\* the checkpoint run p wrote last; they show only while that one is the latest.
PutWrites(st, p, update) == IF st.by = p THEN [st EXCEPT !.writes = Some(update)] ELSE st

NoRun ==
    [op |-> "none", query |-> <<>>, project_id |-> "", existing |-> <<>>,
     chan |-> EmptyChannels, started |-> FALSE, final |-> <<>>, wi |-> 0,
     \* bookkeeping: what the expander did, which stages have finished, and
     \* whether a store call of this call has failed
     expander |-> "none", retrieved |-> FALSE, answered |-> FALSE, faulted |-> FALSE,
     \* the consumer has closed the stream (GeneratorExit was delivered)
     closed |-> FALSE,
     \* the nodes that have run, in order, each with the keys of its update
     trace |-> <<>>,
     \* the calls retrieve_context made to the retriever, in order, each with
     \* its query and what the search did
     searches |-> <<>>,
     \* the non-empty lines of the Query Expander's answer, trimmed, in
     \* output order (additional_queries of line 157), when it answered
     lines |-> None,
     \* what the Answer Generator did, once generate_response has run
     answer |-> None]

\* `status` is the HTTP status of a request the chat endpoints turned down
\* (0 when the call was not such a request).
NoResult ==
    [op |-> "none", success |-> FALSE, response |-> <<>>, generated_queries |-> <<>>,
     retrieval_count |-> 0, history |-> <<>>, status |-> 0]

\* get_chat_history returns a list of messages and nothing else: `failed`
\* records whether its store read raised, `error` whether the answer says so.
NoHist ==
    [taken |-> FALSE, messages |-> <<>>, at |-> 0, failed |-> FALSE, error |-> FALSE,
     limit |-> None]

Event(type, queries, sources, content, is_complete) ==
    [type |-> type, queries |-> queries, sources |-> sources, content |-> content,
     is_complete |-> is_complete]

\* What the closer of a stream gets when the generator, after GeneratorExit
\* was delivered to it, reaches another `yield`: the event is not delivered,
\* aclose() raises RuntimeError("async generator ignored GeneratorExit") and
\* the generator stays suspended at that yield for good.
IgnoredExit == Event("RuntimeError", <<>>, <<>>, <<"async generator ignored GeneratorExit">>, FALSE)

\* A `yield` of the streaming generator.
Yield(p, ev) ==
    events' = [events EXCEPT ![p] = Append(@, IF run[p].closed THEN IgnoredExit ELSE ev)]

\* The generator of call p will not run again.
Stuck(p) == events[p] # <<>> /\ events[p][Len(events[p])].type = "RuntimeError"

\* Lines 393-400: one entry of the sources event. The passages here are
\* shorter than the 200 characters the preview is cut to.
Source(r) == [url |-> r.source_url, content |-> Append(r.text, "..."), score |-> r.score]

\* Mutant: the list is not cut to five.
SourcesEventUncapped(results) ==
    Event("sources", <<>>, [i \in DOMAIN results |-> Source(results[i])], <<>>, FALSE)

\* Lines 390-401: the sources event of a retrieve_context update.
SourcesEvent(results) ==
    LET shown == Take(results, SourcesCap)
    IN  Event("sources", <<>>, [i \in DOMAIN shown |-> Source(shown[i])], <<>>, FALSE)

\* Mutant: is_complete compares with the length, not the last index.
TextEventOffByOne(words, i) ==
    Event("text", <<>>, <<>>, Append(words[i + 1], " "), i = Len(words))

\* Lines 411-415: the text event of the i-th word (0-based) of words.
TextEvent(words, i) ==
    Event("text", <<>>, <<>>, Append(words[i + 1], " "), i = Len(words) - 1)

FaultAllowed == faults < budget

\* The state a thread can be in before a call: no checkpoint yet, or the
\* checkpoint an earlier turn left (user text "y", no retrieval hit).
PriorTurn ==
    [messages |-> <<[id |-> 1, type |-> "human", content |-> <<"y">>],
                    [id |-> 2, type |-> "ai", content |-> NoInfoFallback(<<"y">>)]>>,
     project_id |-> "p1",
     generated_queries |-> Some(<<<<"y">>>>),
     retrieval_results |-> Some(<<>>),
     final_response |-> Some(NoInfoFallback(<<"y">>))]

\* __init__, lines 41-46.  0 stands for None and for the free lock.
NewAgent ==
    [checkpointer_cm |-> 0, checkpointer |-> 0, graph |-> 0, lock |-> 0,
     is_initialized |-> FALSE]

\* A checkpointer context: "new" when from_conn_string has made it, then
\* "entered", "exiting" while __aexit__ is awaited, and "exited"; graphs is
\* the number of graphs compiled against it.
NewContext == [state |-> "new", graphs |-> 0]

\* The agent as lifespan startup (main.py lines 21-23) leaves it.
ReadyAgent ==
    [checkpointer_cm |-> 1, checkpointer |-> 1, graph |-> 1, lock |-> 0,
     is_initialized |-> TRUE]

\* A task that is not inside initialize, cleanup or a call: cm is the context
\* manager it is working on, ran_on the state of the checkpointer its call
\* went on to use, error whether initialize raised to it.
NoTask == [at |-> "idle", op |-> "none", cm |-> 0, ran_on |-> "none", error |-> FALSE]

InitCalls(stores, failures) ==
    /\ store \in stores
    /\ budget = failures
    /\ nextId = 3
    /\ pc = [p \in Procs |-> "idle"]
    /\ run = [p \in Procs |-> NoRun]
    /\ events = [p \in Procs |-> <<>>]
    /\ result = [p \in Procs |-> NoResult]
    /\ faults = 0
    /\ genCalls = [p \in Procs |-> 0]
    /\ calls = 0
    /\ log = <<>>
    /\ hist = NoHist

\* The calls of a running application: startup has initialized the agent.
InitWith(stores, failures) ==
    /\ InitCalls(stores, failures)
    /\ agent = ReadyAgent
    /\ contexts = <<[state |-> "entered", graphs |-> 1]>>
    /\ task = [p \in Procs |-> NoTask]

(* ---------------- process_query / process_query_streaming ---------------- *)
Streaming(p) == run[p].op = "process_query_streaming"

\* Lines 272-288 / 333-352: the call begins; _ensure_initialized finds the
\* agent initialized.
Start(p, ops, texts, projects) ==
    /\ pc[p] = "idle"
    /\ agent.is_initialized
    /\ \E op \in ops, q \in texts, pr \in projects :
          run' = [run EXCEPT ![p] = [NoRun EXCEPT !.op = op, !.query = q,
                                                   !.project_id = pr]]
    /\ pc' = [pc EXCEPT ![p] = "load"]
    /\ events' = [events EXCEPT ![p] = <<>>]
    /\ result' = [result EXCEPT ![p] = NoResult]
    /\ genCalls' = [genCalls EXCEPT ![p] = 0]
    /\ calls' = calls + 1
    /\ hist' = NoHist
    /\ UNCHANGED <<store, nextId, faults, budget, log, agent, contexts, task>>

\* Lines 290-298 / 354-362: existing_messages from checkpointer.alist; an
\* exception of the read is logged and leaves existing_messages empty.
LoadExisting(p) ==
    /\ pc[p] = "load"
    /\ \/ /\ run' = [run EXCEPT ![p].existing =
                        IF store.has THEN store.values.messages ELSE <<>>]
          /\ UNCHANGED faults
       \/ /\ FaultAllowed
          /\ faults' = faults + 1
          /\ run' = [run EXCEPT ![p].existing = <<>>, ![p].faulted = TRUE]
    /\ pc' = [pc EXCEPT ![p] = "input"]
    /\ UNCHANGED <<store, nextId, events, result, genCalls, budget, calls, log, hist, agent, contexts, task>>

\* Mutant: the input leaves the three run fields out.
InitialStateNoReset(p) ==
    [messages |-> Append(run[p].existing, HumanMessage(run[p].query)),
     project_id |-> run[p].project_id]

\* Lines 300-311 / 364-375.
InitialState(p) ==
    [messages |-> Append(run[p].existing, HumanMessage(run[p].query)),
     project_id |-> run[p].project_id,
     generated_queries |-> None,
     retrieval_results |-> None,
     final_response |-> None]

\* Lines 324-331: what process_query returns when an exception reaches it.
FailureResult ==
    [NoResult EXCEPT !.op = "process_query", !.success = FALSE,
                     !.response = <<"Error processing your request">>]

LogEntry(p, success, response) ==
    [op |-> run[p].op, query |-> run[p].query, success |-> success,
     response |-> response, expander |-> run[p].expander]

\* An exception leaves graph.ainvoke / graph.astream.  process_query returns
\* the failure result (lines 324-331); process_query_streaming yields one
\* error event (lines 449-459, 467-470) and goes on to its finally block.
GraphRaises(p) ==
    IF Streaming(p)
    THEN /\ Yield(p, Event("error", <<>>, <<>>,
                        IF run[p].started THEN <<"Stream error:", " ", "store">>
                                          ELSE <<"store">>, FALSE))
         /\ pc' = [pc EXCEPT ![p] = "finally"]
         /\ UNCHANGED <<result, log>>
    ELSE /\ result' = [result EXCEPT ![p] = FailureResult]
         /\ log' = Append(log, LogEntry(p, FALSE, FailureResult.response))
         /\ pc' = [pc EXCEPT ![p] = "idle"]
         /\ UNCHANGED events

\* graph.ainvoke / graph.astream begins: the run loads the latest checkpoint
\* (pending writes of an unfinished step are discarded), applies the input
\* and writes the input checkpoint.
GraphInput(p) ==
    /\ pc[p] = "input"
    /\ LET base == IF store.has THEN store.values ELSE EmptyChannels
           chan == ApplyWrites(base, InitialState(p), nextId)
       IN  \/ /\ store' = Checkpoint(p, chan)
              /\ nextId' = nextId + NewIds(InitialState(p))
              /\ run' = [run EXCEPT ![p].chan = chan]
              /\ pc' = [pc EXCEPT ![p] = NextNode("START")]
              /\ UNCHANGED <<events, result, faults, log>>
           \/ /\ FaultAllowed
              /\ faults' = faults + 1
              /\ GraphRaises(p)
              /\ run' = [run EXCEPT ![p].faulted = TRUE]
              /\ UNCHANGED <<store, nextId>>
    /\ UNCHANGED <<genCalls, budget, calls, hist, agent, contexts, task>>

\* The generate_queries step.  ainvoke applies the node's update and writes
\* the step's checkpoint.  astream hands the update to the consumer loop as
\* soon as the node has finished and its writes are saved; the step's
\* checkpoint is written when the stream is resumed for the next step.
\* Lines 379-388: the loop yields queries_generated for a non-empty list.
GenerateQueries(p, outs) ==
    /\ pc[p] = "generate_queries"
    /\ \E out \in outs :
          LET update == GenerateQueriesNode(run[p].chan, out)
              chan == ApplyWrites(run[p].chan, update, nextId)
          IN  IF Streaming(p)
              THEN /\ store' = PutWrites(store, p, update)
                   /\ run' = [run EXCEPT ![p].chan = chan, ![p].started = TRUE,
                                          ![p].expander = ExpanderVerdict(out),
                                          ![p].lines = IF out.kind = "ok"
                                                       THEN Some(ParseQueries(out.content))
                                                       ELSE None,
                                          ![p].trace = Append(@, Ran("generate_queries", update))]
                   /\ IF Truthy(update.generated_queries)
                      THEN Yield(p, Event("queries_generated",
                                          update.generated_queries[1], <<>>, <<>>, FALSE))
                      ELSE UNCHANGED events
                   /\ pc' = [pc EXCEPT ![p] = NextNode("generate_queries")]
                   /\ UNCHANGED <<result, faults, log>>
              ELSE \/ /\ store' = Checkpoint(p, chan)
                      /\ run' = [run EXCEPT ![p].chan = chan,
                                             ![p].expander = ExpanderVerdict(out),
                                          ![p].lines = IF out.kind = "ok"
                                                       THEN Some(ParseQueries(out.content))
                                                       ELSE None,
                                             ![p].trace = Append(@, Ran("generate_queries", update))]
                      /\ pc' = [pc EXCEPT ![p] = NextNode("generate_queries")]
                      /\ UNCHANGED <<events, result, faults, log>>
                   \/ /\ FaultAllowed
                      /\ faults' = faults + 1
                      /\ GraphRaises(p)
                      /\ run' = [run EXCEPT ![p].faulted = TRUE]
                      /\ UNCHANGED store
    /\ UNCHANGED <<nextId, genCalls, budget, calls, hist, agent, contexts, task>>

\* The retrieve_context step.  Lines 390-401: the loop yields sources for a
\* non-empty result list.
RetrieveContext(p, answers) ==
    /\ pc[p] = "retrieve_context"
    /\ ~Stuck(p)
    /\ LET state == run[p].chan
           n == IF RetrieveShortCircuit(state) THEN 0 ELSE Len(state.generated_queries[1])
       IN  \E outs \in [1..n -> answers] :
              LET update == RetrieveContextNode(state, outs)
                  chan == ApplyWrites(state, update, nextId)
              IN  \/ /\ IF Streaming(p)
                        THEN /\ store' = PutWrites(Checkpoint(p, state), p, update)
                             /\ IF Truthy(update.retrieval_results)
                                THEN Yield(p, SourcesEvent(update.retrieval_results[1]))
                                ELSE UNCHANGED events
                        ELSE /\ store' = Checkpoint(p, chan)
                             /\ UNCHANGED events
                     /\ run' = [run EXCEPT ![p].chan = chan, ![p].retrieved = TRUE,
                                            ![p].trace = Append(@, Ran("retrieve_context", update)),
                                            ![p].searches =
                                                [i \in 1..n |->
                                                    [query |-> state.generated_queries[1][i],
                                                     kind |-> outs[i].kind, n |-> outs[i].n]]]
                     /\ pc' = [pc EXCEPT ![p] = NextNode("retrieve_context")]
                     /\ UNCHANGED <<result, faults, log>>
                  \/ /\ FaultAllowed
                     /\ faults' = faults + 1
                     /\ GraphRaises(p)
                     /\ run' = [run EXCEPT ![p].faulted = TRUE]
                     /\ UNCHANGED store
    /\ UNCHANGED <<nextId, genCalls, budget, calls, hist, agent, contexts, task>>

\* The node call p stands at is about to await a collaborator: the expander
\* (lines 146-150), the retriever (198-208) or the generator (250-254).
AwaitsCollaborator(p) ==
    \/ pc[p] = "generate_queries"
    \/ pc[p] = "retrieve_context" /\ ~RetrieveShortCircuit(run[p].chan)
    \/ pc[p] = "generate_response" /\ GeneratorInvoked(run[p].chan)

\* The collaborator never answers.  None of the three calls is given a
\* timeout, so the node stays in its await.
CollaboratorHangs(p) ==
    /\ AwaitsCollaborator(p)
    /\ ~Stuck(p)
    /\ pc' = [pc EXCEPT ![p] = "awaiting"]
    /\ UNCHANGED <<store, nextId, run, events, result, faults, budget, genCalls,
                   calls, log, hist, agent, contexts, task>>

\* Mutant: retrieval_count counts the queries, not the passages.
SuccessResultCountsQueries(final_state) ==
    [NoResult EXCEPT
        !.op = "process_query",
        !.success = TRUE,
        !.response = IF final_state.final_response = None
                     THEN NoResponseText ELSE final_state.final_response[1],
        !.generated_queries = IF final_state.generated_queries = None
                              THEN <<>> ELSE final_state.generated_queries[1],
        !.retrieval_count = Len(final_state.generated_queries[1])]

\* Lines 315-322: what process_query returns after graph.ainvoke.
SuccessResult(final_state) ==
    [NoResult EXCEPT
        !.op = "process_query",
        !.success = TRUE,
        !.response = IF final_state.final_response = None
                     THEN NoResponseText ELSE final_state.final_response[1],
        !.generated_queries = IF final_state.generated_queries = None
                              THEN <<>> ELSE final_state.generated_queries[1],
        !.retrieval_count = Len(final_state.retrieval_results[1])]

\* The generate_response step.  process_query returns after it.  Lines
\* 403-408: for a non-empty final_response the streaming loop goes on to the
\* words; for an empty one it asks the stream for the next event, which
\* writes the step's checkpoint and ends the stream.
GenerateResponse(p, outs) ==
    /\ pc[p] = "generate_response"
    /\ ~Stuck(p)
    /\ LET state == run[p].chan
           invoked == GeneratorInvoked(state)
       IN  /\ genCalls' = [genCalls EXCEPT ![p] = IF invoked THEN @ + 1 ELSE @]
           /\ \E out \in IF invoked THEN outs ELSE {[kind |-> "raise", content |-> <<>>]} :
                 LET update == GenerateResponseNode(state, out)
                     chan == ApplyWrites(state, update, nextId)
                     text == update.final_response[1]
                 IN  IF Streaming(p)
                     THEN \/ /\ text # <<>>
                             /\ store' = PutWrites(Checkpoint(p, state), p, update)
                             /\ run' = [run EXCEPT ![p].final = text, ![p].wi = 0,
                                                    ![p].answered = TRUE,
                                                    ![p].answer = Some(out),
                                                    ![p].trace = Append(@, Ran("generate_response", update))]
                             /\ pc' = [pc EXCEPT ![p] = "words"]
                             /\ UNCHANGED <<nextId, events, result, faults, log>>
                          \/ /\ text = <<>>
                             /\ store' = Checkpoint(p, chan)
                             /\ nextId' = nextId + NewIds(update)
                             /\ run' = [run EXCEPT ![p].chan = chan, ![p].answered = TRUE,
                                                    ![p].answer = Some(out),
                                                    ![p].trace = Append(@, Ran("generate_response", update))]
                             /\ pc' = [pc EXCEPT ![p] = "finally"]
                             /\ UNCHANGED <<events, result, faults, log>>
                          \/ /\ FaultAllowed
                             /\ faults' = faults + 1
                             /\ GraphRaises(p)
                             /\ run' = [run EXCEPT ![p].faulted = TRUE]
                             /\ UNCHANGED <<store, nextId>>
                     ELSE \/ /\ store' = Checkpoint(p, chan)
                             /\ nextId' = nextId + NewIds(update)
                             /\ run' = [run EXCEPT ![p].chan = chan, ![p].final = text,
                                                    ![p].answered = TRUE,
                                                    ![p].answer = Some(out),
                                                    ![p].trace = Append(@, Ran("generate_response", update))]
                             /\ result' = [result EXCEPT ![p] = SuccessResult(chan)]
                             /\ log' = Append(log, LogEntry(p, TRUE, SuccessResult(chan).response))
                             /\ pc' = [pc EXCEPT ![p] = "idle"]
                             /\ UNCHANGED <<events, faults>>
                          \/ /\ FaultAllowed
                             /\ faults' = faults + 1
                             /\ GraphRaises(p)
                             /\ run' = [run EXCEPT ![p].faulted = TRUE]
                             /\ UNCHANGED <<store, nextId>>
    /\ UNCHANGED <<budget, calls, hist, agent, contexts, task>>

\* Lines 408-422: one text event per word of response_text.split().
StreamWord(p) ==
    /\ pc[p] = "words"
    /\ ~Stuck(p)
    /\ LET words == SplitWords(run[p].final)
       IN  /\ run[p].wi < Len(words)
           /\ Yield(p, TextEvent(words, run[p].wi))
    /\ run' = [run EXCEPT ![p].wi = @ + 1]
    /\ UNCHANGED <<store, nextId, pc, result, faults, genCalls, budget, calls, log, hist, agent, contexts, task>>

\* Mutant: the completion signal is sent twice.
StreamDoneTwice(p) ==
    /\ pc[p] = "words"
    /\ ~Stuck(p)
    /\ run[p].wi = Len(SplitWords(run[p].final))
    /\ events' = [events EXCEPT ![p] =
                     @ \o << Event("done", <<>>, <<>>, run[p].final, FALSE),
                             Event("done", <<>>, <<>>, run[p].final, FALSE) >>]
    /\ pc' = [pc EXCEPT ![p] = "finally"]
    /\ UNCHANGED <<store, nextId, run, result, faults, budget, genCalls, calls, log, hist, agent, contexts, task>>

\* Lines 424-435: the done event, then return.
StreamDone(p) ==
    /\ pc[p] = "words"
    /\ ~Stuck(p)
    /\ run[p].wi = Len(SplitWords(run[p].final))
    /\ Yield(p, Event("done", <<>>, <<>>, run[p].final, FALSE))
    /\ pc' = [pc EXCEPT ![p] = "finally"]
    /\ UNCHANGED <<store, nextId, run, result, faults, genCalls, budget, calls, log, hist, agent, contexts, task>>

\* graph.aget_state: the latest checkpoint's values with its pending writes
\* applied.
StateValues(st, next) ==
    IF st.writes = None THEN st.values ELSE ApplyWrites(st.values, st.writes[1], next)

StreamResult == [NoResult EXCEPT !.op = "process_query_streaming", !.success = TRUE]

\* Lines 475-515: the finally block.  After a stream that started it reads
\* the state and writes it back with aupdate_state; an exception of either
\* store call is logged and the generator ends normally.
Finally(p) ==
    /\ pc[p] = "finally"
    /\ ~Stuck(p)
    /\ \/ /\ run[p].started /\ store.has
          /\ store' = Checkpoint(p, StateValues(store, nextId))
          /\ nextId' = nextId + (IF store.writes = None THEN 0 ELSE NewIds(store.writes[1]))
          /\ UNCHANGED faults
       \/ /\ ~(run[p].started /\ store.has)
          /\ UNCHANGED <<store, nextId, faults>>
       \/ /\ run[p].started
          /\ FaultAllowed
          /\ faults' = faults + 1
          /\ UNCHANGED <<store, nextId>>
    /\ run' = [run EXCEPT ![p].faulted =
                  @ \/ (faults' # faults)]
    /\ result' = [result EXCEPT ![p] = StreamResult]
    /\ log' = Append(log, LogEntry(p, TRUE, run[p].final))
    /\ pc' = [pc EXCEPT ![p] = "idle"]
    /\ UNCHANGED <<events, genCalls, budget, calls, hist, agent, contexts, task>>

\* The generator is suspended at the `yield` that delivered its last event.
Suspended(p) ==
    /\ Streaming(p)
    /\ events[p] # <<>>
    /\ LET last == events[p][Len(events[p])].type
       IN  \/ pc[p] = "retrieve_context" /\ last = "queries_generated"
           \/ pc[p] = "generate_response" /\ last = "sources"
           \/ pc[p] = "words" /\ last = "text"
           \/ pc[p] = "finally" /\ last \in {"done", "error"}

\* The consumer stops reading and the stream is closed: GeneratorExit is
\* raised at the yield the generator is suspended at.  At a text, done or
\* error yield the handler returns (lines 417-420, 431-434, 454-457), which
\* leads to the finally block.  At a queries_generated or sources yield the
\* handler of lines 437-441 goes on with the loop (`continue`).
ConsumerCloses(p) ==
    /\ Suspended(p)
    /\ ~run[p].closed
    /\ run' = [run EXCEPT ![p].closed = TRUE]
    /\ pc' = [pc EXCEPT ![p] = IF @ = "words" THEN "finally" ELSE @]
    /\ UNCHANGED <<store, nextId, events, result, faults, budget, genCalls, calls, log, hist, agent, contexts, task>>

\* A generator that ignored GeneratorExit is dropped where it stands; its
\* finally block does not run.
Abandon(p) ==
    /\ pc[p] # "idle"
    /\ Stuck(p)
    /\ result' = [result EXCEPT ![p] = StreamResult]
    /\ log' = Append(log, LogEntry(p, FALSE, run[p].final))
    /\ pc' = [pc EXCEPT ![p] = "idle"]
    /\ UNCHANGED <<store, nextId, run, events, faults, budget, genCalls, calls, hist, agent, contexts, task>>

(* ---------------- get_chat_history ---------------- *)
\* Lines 539-547.
FormatMessages(messages) ==
    [i \in DOMAIN messages |-> [type |-> messages[i].type, content |-> messages[i].content]]

\* Mutant: a thread without a checkpoint is reported as an error.
GetChatHistoryUnknownFails(p) ==
    /\ pc[p] = "idle"
    /\ hist' = [taken |-> TRUE,
                messages |-> IF store.has
                             THEN FormatMessages(store.values.messages) ELSE <<>>,
                at |-> Len(log), failed |-> FALSE, error |-> ~store.has, limit |-> None]
    /\ UNCHANGED <<store, nextId, pc, run, events, result, faults, genCalls, budget,
                   calls, log, agent, contexts, task>>

\* Lines 517-553, get_chat_history(thread_id, limit): the messages of the
\* latest checkpoint; [] when there is none, and [] when the read raises.
\* The body never reads `limit`.
GetChatHistoryWith(p, limit) ==
    /\ pc[p] = "idle"
    /\ \/ /\ hist' = [taken |-> TRUE,
                      messages |-> IF store.has
                                   THEN FormatMessages(store.values.messages) ELSE <<>>,
                      at |-> Len(log), failed |-> FALSE, error |-> FALSE, limit |-> limit]
          /\ UNCHANGED faults
       \/ /\ FaultAllowed
          /\ faults' = faults + 1
          /\ hist' = [taken |-> TRUE, messages |-> <<>>, at |-> Len(log),
                      failed |-> TRUE, error |-> FALSE, limit |-> limit]
    /\ UNCHANGED <<store, nextId, pc, run, events, result, genCalls, budget, calls, log, agent, contexts, task>>

\* get_chat_history called without a limit, as the agent's own callers do.
GetChatHistory(p) == GetChatHistoryWith(p, None)

\* The limits a request to the history endpoint carries: one that is smaller
\* than a turn, and the endpoint's default.
RequestLimits == {1, DefaultLimit}

\* chat.py lines 305-319: get_chat_history_endpoint hands its limit on.
GetChatHistoryEndpoint(p) ==
    \E limit \in RequestLimits : GetChatHistoryWith(p, Some(limit))

(* ---------------- the chat endpoints ---------------- *)
\* The project ids a request can carry: none, one that is no UUID, the UUID
\* of no project, and the id of a project.
RequestProjects == {"", "bad", "unknown", "p1"}

Endpoints == {"chat", "chat_stream"}

\* chat.py lines 131-143 (chat_stream) and 181-193 (chat): the status of the
\* HTTPException the validation raises, 0 when it raises none.
ValidateProject(project_id) ==
    CASE project_id = "" -> 400
      [] project_id = "bad" -> 400
      [] project_id = "unknown" -> 404
      [] OTHER -> 0

\* chat.py lines 166-167 / 224-225: the validation sits inside the handler's
\* `try`, and `except Exception` catches the HTTPException it raised and
\* raises a new one with status 500.
EndpointStatus(raised) == IF raised # 0 THEN 500 ELSE 200

\* POST /chat and POST /chat/stream: a request that fails validation is
\* answered with an error status, any other goes on to process_with_langgraph
\* or process_with_langgraph_streaming.
ChatEndpoint(p, texts) ==
    /\ pc[p] = "idle"
    /\ \E ep \in Endpoints, pr \in RequestProjects :
          IF ValidateProject(pr) # 0
          THEN /\ run' = [run EXCEPT ![p] = [NoRun EXCEPT !.op = ep, !.project_id = pr]]
               /\ result' = [result EXCEPT ![p] =
                                [NoResult EXCEPT !.op = ep,
                                     !.status = EndpointStatus(ValidateProject(pr))]]
               /\ UNCHANGED <<store, nextId, pc, events, faults, budget, genCalls,
                              calls, log, hist, agent, contexts, task>>
          ELSE Start(p, {IF ep = "chat" THEN "process_query"
                                        ELSE "process_query_streaming"}, texts, {pr})

\* chat.py lines 82-104: the loop of generate_streaming_response over the
\* chunks of process_with_langgraph_streaming.  text and sources chunks are
\* sent on; a done chunk is sent on after its content, when it is not empty,
\* is saved as the assistant message, and ends the loop; a chunk of any
\* other type is passed over.
RECURSIVE ForwardChunks(_, _, _)
ForwardChunks(chunks, sent, saved) ==
    IF chunks = <<>>
    THEN [sent |-> sent, saved |-> saved]
    ELSE LET chunk == Head(chunks)
         IN  IF chunk.type \in {"text", "sources"}
             THEN ForwardChunks(Tail(chunks), Append(sent, chunk), saved)
             ELSE IF chunk.type = "done"
             THEN [sent |-> Append(sent, chunk),
                   saved |-> IF chunk.content # <<>>
                             THEN Append(saved, [role |-> "assistant", content |-> chunk.content])
                             ELSE saved]
             ELSE ForwardChunks(Tail(chunks), sent, saved)

\* chat.py lines 61-114, generate_streaming_response for a valid thread id:
\* the user message is saved first; sent is what the client receives and
\* saved the messages written to the transcript.
GenerateStreamingResponse(query, chunks) ==
    ForwardChunks(chunks, <<>>, <<[role |-> "user", content |-> query]>>)

(* ---------------- initialize and cleanup ---------------- *)
\* The calls that begin with _ensure_initialized (lines 284, 350, 520).
AgentOps == {"process_query", "process_query_streaming", "get_chat_history"}

\* A call begins and reaches `await self._ensure_initialized()`.
BeginRequest(p, ops) ==
    /\ task[p].at = "idle"
    /\ \E op \in ops : task' = [task EXCEPT ![p] = [NoTask EXCEPT !.at = "ensure", !.op = op]]
    /\ UNCHANGED <<agent, contexts, faults, budget, callVars>>

\* _ensure_initialized, lines 101-104: initialize() is called when the flag
\* is not set.
EnsureInitialized(p) ==
    /\ task[p].at = "ensure"
    /\ task' = [task EXCEPT ![p].at = IF agent.is_initialized THEN "request" ELSE "acquire"]
    /\ UNCHANGED <<agent, contexts, faults, budget, callVars>>

\* initialize_global_agent, lines 565-567, as lifespan startup calls it.
Initialize(p) ==
    /\ task[p].at = "idle"
    /\ task' = [task EXCEPT ![p] = [NoTask EXCEPT !.at = "acquire", !.op = "initialize"]]
    /\ UNCHANGED <<agent, contexts, faults, budget, callVars>>

\* Where initialize() returns to.
ReturnTo(p) == IF task[p].op = "initialize" THEN "idle" ELSE "request"

\* Mutant: the flag is not looked at again inside the lock.
AlreadyInitializedUnchecked == FALSE

\* Lines 51-52: the check inside the lock.
AlreadyInitialized == agent.is_initialized

\* _cleanup_checkpointer, lines 73-76: __aexit__ is called when both the
\* context manager and the checkpointer are set.
HasCheckpointer == agent.checkpointer_cm # 0 /\ agent.checkpointer # 0

\* Lines 50-60: the lock is taken; an initialized agent is left alone,
\* otherwise the context manager is made and __aenter__ is awaited.
Acquire(p) ==
    /\ task[p].at = "acquire"
    /\ agent.lock = 0
    /\ IF AlreadyInitialized
       THEN /\ task' = [task EXCEPT ![p].at = ReturnTo(p)]
            /\ UNCHANGED <<agent, contexts>>
       ELSE /\ Len(contexts) < MaxInits
            /\ contexts' = Append(contexts, NewContext)
            /\ agent' = [agent EXCEPT !.lock = p, !.checkpointer_cm = Len(contexts) + 1]
            /\ task' = [task EXCEPT ![p].at = "aenter", ![p].cm = Len(contexts) + 1]
    /\ UNCHANGED <<faults, budget, callVars>>

\* Lines 60-71: __aenter__ returns and the graph is compiled, the flag set
\* and the lock released; or __aenter__ raises, or compile raises, and the
\* handler calls _cleanup_checkpointer before it raises to the caller.
Aenter(p) ==
    /\ task[p].at = "aenter"
    /\ LET cm == task[p].cm
       IN  \/ /\ contexts' = [contexts EXCEPT ![cm] = [state |-> "entered", graphs |-> @.graphs + 1]]
              /\ agent' = [agent EXCEPT !.checkpointer = cm, !.graph = cm,
                                         !.is_initialized = TRUE, !.lock = 0]
              /\ task' = [task EXCEPT ![p].at = ReturnTo(p)]
              /\ UNCHANGED faults
           \/ /\ FaultAllowed
              /\ faults' = faults + 1
              /\ IF HasCheckpointer
                 THEN /\ contexts' = [contexts EXCEPT ![agent.checkpointer_cm].state = "exiting"]
                      /\ task' = [task EXCEPT ![p].at = "aexit", ![p].cm = agent.checkpointer_cm]
                      /\ UNCHANGED agent
                 ELSE /\ agent' = [agent EXCEPT !.lock = 0]
                      /\ task' = [task EXCEPT ![p].at = "idle", ![p].error = TRUE]
                      /\ UNCHANGED contexts
           \/ /\ FaultAllowed
              /\ faults' = faults + 1
              /\ agent.checkpointer_cm # 0
              /\ contexts' = [contexts EXCEPT ![cm].state = "entered",
                                              ![agent.checkpointer_cm].state = "exiting"]
              /\ agent' = [agent EXCEPT !.checkpointer = cm]
              /\ task' = [task EXCEPT ![p].at = "aexit", ![p].cm = agent.checkpointer_cm]
    /\ UNCHANGED <<budget, callVars>>

\* cleanup_global_agent, lines 555-558 and 570-572, as lifespan shutdown
\* calls it: it takes no lock; the flag is cleared after _cleanup_checkpointer.
Cleanup(p) ==
    /\ task[p].at = "idle"
    /\ IF HasCheckpointer
       THEN /\ contexts' = [contexts EXCEPT ![agent.checkpointer_cm].state = "exiting"]
            /\ task' = [task EXCEPT ![p] = [NoTask EXCEPT !.at = "aexit", !.op = "cleanup",
                                                          !.cm = agent.checkpointer_cm]]
            /\ UNCHANGED agent
       ELSE /\ agent' = [agent EXCEPT !.is_initialized = FALSE]
            /\ task' = [task EXCEPT ![p] = [NoTask EXCEPT !.op = "cleanup"]]
            /\ UNCHANGED contexts
    /\ UNCHANGED <<faults, budget, callVars>>

\* Lines 76-82: __aexit__ returns or raises, the two fields are set to None;
\* cleanup then clears the flag, the handler of initialize raises.
AexitReturns(p) ==
    /\ task[p].at = "aexit"
    /\ contexts' = [contexts EXCEPT ![task[p].cm].state = "exited"]
    /\ agent' = IF task[p].op = "cleanup"
                THEN [agent EXCEPT !.checkpointer = 0, !.checkpointer_cm = 0,
                                   !.is_initialized = FALSE]
                ELSE [agent EXCEPT !.checkpointer = 0, !.checkpointer_cm = 0, !.lock = 0]
    /\ task' = [task EXCEPT ![p].at = "idle", ![p].error = (task[p].op # "cleanup")]
    /\ UNCHANGED <<faults, budget, callVars>>

\* The call goes on after its first await: get_chat_history reads
\* self.checkpointer (line 526), the other two run the compiled graph
\* (lines 313, 379), which holds the checkpointer it was compiled with.
UseCheckpointer(p) ==
    /\ task[p].at = "request"
    /\ task' = [task EXCEPT
                   ![p].at = "idle",
                   ![p].ran_on = IF task[p].op = "get_chat_history"
                                 THEN IF agent.checkpointer = 0 THEN "absent"
                                      ELSE contexts[agent.checkpointer].state
                                 ELSE contexts[agent.graph].state]
    /\ UNCHANGED <<agent, contexts, faults, budget, callVars>>

(* ---------------- specifications ---------------- *)
AllIdle == \A q \in Procs : pc[q] = "idle"

Ops == {"process_query", "process_query_streaming"}

\* One call on a thread in any state a thread can be in, with every answer
\* the collaborators can give.
Init == InitWith({NoStore, Checkpoint(0, PriorTurn)}, MaxStoreFaults)

\* A client that makes one call at a time occupies one call slot.
SeqProcs == {CHOOSE p \in Procs : TRUE}

\* The text of the one call of a behaviour of Spec: it is not the text of
\* the earlier turn.
NewTexts == {t \in UserTexts : t # PriorTurn.messages[1].content}

\* The one call of a behaviour of Spec.
StartCall(p) == calls = 0 /\ Start(p, Ops, NewTexts, ProjectIds)

\* The same call, made through the chat endpoints.
ChatCall(p) == calls = 0 /\ ChatEndpoint(p, NewTexts)

Next ==
    \E p \in SeqProcs :
        \/ StartCall(p)
        \/ ChatCall(p)
        \/ LoadExisting(p)
        \/ GraphInput(p)
        \/ GenerateQueries(p, ExpanderOutcomes)
        \/ RetrieveContext(p, RetrieverOutcomes)
        \/ GenerateResponse(p, GeneratorOutcomes)
        \/ StreamWord(p)
        \/ StreamDone(p)
        \/ Finally(p)
        \/ GetChatHistory(p)

Spec == Init /\ [][Next]_vars

\* A sequence of calls on a fresh thread, one at a time, with a few of the
\* collaborators' answers: each call fails or answers once.
FewExpanderOutcomes ==
    {[kind |-> "raise", content |-> <<>>], [kind |-> "ok", content |-> <<"e", "NL", "e">>]}
FewRetrieverOutcomes == {[kind |-> "raise", n |-> 0], [kind |-> "ok", n |-> 1]}
FewGeneratorOutcomes ==
    {[kind |-> "raise", content |-> <<>>], [kind |-> "ok", content |-> <<"a">>]}

InitFresh == InitWith({NoStore}, MaxStoreFaults)

StartNext(p) == AllIdle /\ calls < MaxCalls /\ Start(p, Ops, UserTexts, ProjectIds)

NextSeq ==
    \E p \in SeqProcs :
        \/ StartNext(p)
        \/ LoadExisting(p)
        \/ GraphInput(p)
        \/ GenerateQueries(p, FewExpanderOutcomes)
        \/ RetrieveContext(p, FewRetrieverOutcomes)
        \/ GenerateResponse(p, FewGeneratorOutcomes)
        \/ StreamWord(p)
        \/ StreamDone(p)
        \/ Finally(p)
        \/ GetChatHistory(p)

SpecSeq == InitFresh /\ [][NextSeq]_vars

\* One call, read to its end by its consumer, with collaborators that fail,
\* answer, or never answer; the store does not fail.  Every step that can be
\* taken is taken eventually.
InitLive == InitWith({NoStore, Checkpoint(0, PriorTurn)}, 0)

NextLive ==
    \E p \in SeqProcs :
        \/ StartCall(p)
        \/ LoadExisting(p)
        \/ GraphInput(p)
        \/ GenerateQueries(p, FewExpanderOutcomes)
        \/ RetrieveContext(p, FewRetrieverOutcomes)
        \/ GenerateResponse(p, FewGeneratorOutcomes)
        \/ CollaboratorHangs(p)
        \/ StreamWord(p)
        \/ StreamDone(p)
        \/ Finally(p)
        \/ GetChatHistory(p)

SpecLive == InitLive /\ [][NextLive]_vars /\ WF_vars(NextLive)

\* Sequences of calls with a consumer that may stop reading a stream after
\* any event.  The store fails at most once, the expander is down, the
\* retriever finds one passage or fails, the generator answers.
InitClose == InitWith({NoStore}, 1)

NextClose ==
    \E p \in SeqProcs :
        \/ StartNext(p)
        \/ LoadExisting(p)
        \/ GraphInput(p)
        \/ GenerateQueries(p, {[kind |-> "raise", content |-> <<>>]})
        \/ RetrieveContext(p, FewRetrieverOutcomes)
        \/ GenerateResponse(p, {[kind |-> "ok", content |-> <<"a">>]})
        \/ StreamWord(p)
        \/ StreamDone(p)
        \/ Finally(p)
        \/ ConsumerCloses(p)
        \/ Abandon(p)
        \/ GetChatHistory(p)

SpecClose == InitClose /\ [][NextClose]_vars

\* Calls on one thread that may overlap: each caller has its own call slot.
\* The store does not fail, the expander is down, the retriever finds one
\* passage or fails, the generator answers.
InitConc == InitWith({NoStore}, 0)

StartAny(p) == calls < MaxCalls /\ Start(p, Ops, UserTexts, {"p1"})

NextConc ==
    \E p \in Procs :
        \/ StartAny(p)
        \/ LoadExisting(p)
        \/ GraphInput(p)
        \/ GenerateQueries(p, {[kind |-> "raise", content |-> <<>>]})
        \/ RetrieveContext(p, FewRetrieverOutcomes)
        \/ GenerateResponse(p, {[kind |-> "ok", content |-> <<"a">>]})
        \/ StreamWord(p)
        \/ StreamDone(p)
        \/ Finally(p)
        \/ GetChatHistory(p)

SpecConc == InitConc /\ [][NextConc]_vars

\* One call on a thread in any state a thread can be in, and a client that
\* reads the history through the endpoint before and after it.
NextHist ==
    \E p \in SeqProcs :
        \/ StartCall(p)
        \/ LoadExisting(p)
        \/ GraphInput(p)
        \/ GenerateQueries(p, FewExpanderOutcomes)
        \/ RetrieveContext(p, FewRetrieverOutcomes)
        \/ GenerateResponse(p, FewGeneratorOutcomes)
        \/ StreamWord(p)
        \/ StreamDone(p)
        \/ Finally(p)
        \/ GetChatHistoryEndpoint(p)

SpecHist == Init /\ [][NextHist]_vars

\* Concurrent first calls on an agent that was not initialized at startup;
\* the connection to the store may fail.
InitCold ==
    /\ InitCalls({NoStore}, MaxStoreFaults)
    /\ agent = NewAgent
    /\ contexts = <<>>
    /\ task = [p \in Procs |-> NoTask]

FirstCall(p) == task[p].op = "none" /\ BeginRequest(p, AgentOps)

NextInit ==
    \E p \in Procs :
        \/ FirstCall(p)
        \/ EnsureInitialized(p)
        \/ Acquire(p)
        \/ Aenter(p)
        \/ AexitReturns(p)
        \/ UseCheckpointer(p)

SpecInit == InitCold /\ [][NextInit]_vars

\* Startup, calls and shutdown in any interleaving.
NextLife ==
    \E p \in Procs :
        \/ Initialize(p)
        \/ Cleanup(p)
        \/ BeginRequest(p, AgentOps)
        \/ EnsureInitialized(p)
        \/ Acquire(p)
        \/ Aenter(p)
        \/ AexitReturns(p)
        \/ UseCheckpointer(p)

SpecLife == InitCold /\ [][NextLife]_vars

(* ---------------- the claims ---------------- *)
Finished(p) == pc[p] = "idle" /\ result[p].op # "none"
StreamEnded(p) == pc[p] = "idle" /\ result[p].op = "process_query_streaming"
OfType(evs, t) == SelectSeq(evs, LAMBDA e : e.type = t)
Positions(evs, types) == {i \in DOMAIN evs : evs[i].type \in types}

\* The history a sequence of finished calls should leave: each call's user
\* message followed by that call's answer.
RECURSIVE TurnsOf(_)
TurnsOf(entries) ==
    IF entries = <<>>
    THEN <<>>
    ELSE << [type |-> "human", content |-> Head(entries).query],
            [type |-> "ai", content |-> Head(entries).response] >> \o TurnsOf(Tail(entries))

OnlyProcessQuery(entries) ==
    \A i \in DOMAIN entries : entries[i].op = "process_query"

\* C1: after any sequence of process_query calls made one after the other on
\* a thread, with a working store, get_chat_history returns one user message
\* and one assistant message per call, in call order, whatever the expander,
\* the retriever and the generator did.
C1_NoLostTurns ==
    (hist.taken /\ faults = 0 /\ OnlyProcessQuery(SubSeq(log, 1, hist.at)))
        => hist.messages = TurnsOf(SubSeq(log, 1, hist.at))

\* Two calls in which every collaborator failed, then the history was read.
C1_Witness ==
    /\ hist.taken /\ faults = 0 /\ hist.at = 2
    /\ OnlyProcessQuery(log)
    /\ \A i \in 1..2 : /\ log[i].expander = "raised"
                       /\ log[i].response = NoInfoFallback(log[i].query)
    /\ Len(hist.messages) = 4

\* C2: when overlapping process_query calls on one thread have all returned,
\* the history holds every call's user message directly followed by that
\* call's answer, in some order of the calls, nothing lost or duplicated.
C2_NoInterleavedHistory ==
    (AllIdle /\ log # <<>> /\ OnlyProcessQuery(log) /\ Len(log) = calls /\ store.has)
        => \E order \in Permutations(DOMAIN log) :
              FormatMessages(store.values.messages)
                  = TurnsOf([i \in DOMAIN log |-> log[order[i]]])

\* C3: a process_query call in which no store call failed returns success
\* with a non-empty response, whatever the collaborators did; success false
\* is returned only after a store failure.
C3_DegradedRunsSucceed ==
    \A p \in Procs :
        (pc[p] = "idle" /\ result[p].op = "process_query")
            => /\ ~run[p].faulted => (result[p].success /\ result[p].response # <<>>)
               /\ ~result[p].success => run[p].faulted

\* C4: once generate_queries has run, generated_queries is non-empty and
\* starts with the user's text; if the expander raised or answered with
\* nothing, it is exactly that text.
C4_QueriesStartWithUserText ==
    \A p \in Procs :
        run[p].expander # "none"
            => LET gq == run[p].chan.generated_queries
               IN  /\ Truthy(gq)
                   /\ gq[1][1] = run[p].query
                   /\ run[p].expander \in {"raised", "empty"} => gq[1] = <<run[p].query>>

\* The expander answered with whitespace only, and the run went on.
C4_Witness ==
    \E p \in Procs :
        /\ run[p].expander = "empty"
        /\ run[p].retrieved
        /\ run[p].chan.generated_queries = Some(<<run[p].query>>)

\* C5: when retrieval_results is empty, generate_response does not call the
\* Answer Generator and answers with the no-information text for the user's
\* text.
C5_EmptyRetrievalShortCircuit ==
    \A p \in Procs :
        (run[p].answered /\ ~Truthy(run[p].chan.retrieval_results))
            => /\ genCalls[p] = 0
               /\ run[p].final = NoInfoFallback(run[p].query)

\* Two queries were searched in a project, neither found anything, and the
\* run was answered.
C5_Witness ==
    \E p \in Procs :
        /\ run[p].answered
        /\ run[p].project_id = "p1"
        /\ Len(run[p].chan.generated_queries[1]) = 2
        /\ run[p].chan.retrieval_results = Some(<<>>)
        /\ genCalls[p] = 0

\* C6: a stream read to its end holds exactly one terminal event, done or
\* error, and that event is its last.
C6_StreamEndsWithTerminalEvent ==
    \A p \in Procs :
        StreamEnded(p)
            => /\ events[p] # <<>>
               /\ Positions(events[p], {"done", "error"}) = {Len(events[p])}

\* The number of whitespace-delimited words of a text, counted by where the
\* words begin.
WordCount(text) ==
    Cardinality({i \in DOMAIN text :
                    ~IsSpace(text[i]) /\ (i = 1 \/ IsSpace(text[i - 1]))})

\* C7: for a final answer of n >= 1 words the stream holds n text events,
\* the k-th carrying the k-th word, is_complete true on the n-th alone,
\* directly followed by the one done event, which carries the whole answer.
C7_OneTextEventPerWord ==
    \A p \in Procs :
        (StreamEnded(p) /\ run[p].answered /\ WordCount(run[p].final) >= 1)
            => LET evs == events[p]
                   n == WordCount(run[p].final)
                   words == SplitWords(run[p].final)
                   texts == OfType(evs, "text")
               IN  /\ Len(texts) = n
                   /\ Len(words) = n
                   /\ \A k \in 1..n : /\ texts[k].content = Append(words[k], " ")
                                      /\ texts[k].is_complete = (k = n)
                   /\ Positions(evs, {"text"}) = (Len(evs) - n)..(Len(evs) - 1)
                   /\ Positions(evs, {"done"}) = {Len(evs)}
                   /\ evs[Len(evs)].content = run[p].final

\* A stream ended whose answer has two words between extra whitespace.
C7_Witness ==
    \E p \in Procs :
        /\ StreamEnded(p) /\ run[p].answered
        /\ WordCount(run[p].final) = 2
        /\ Len(run[p].final) > 3
        /\ Len(OfType(events[p], "text")) = 2

\* C8: queries_generated, sources and done occur at most once each; nothing
\* but the start of the stream precedes queries_generated, no text precedes
\* sources, and nothing follows done.
C8_EventOrder ==
    \A p \in Procs :
        LET evs == events[p]
        IN  /\ \A t \in {"queries_generated", "sources", "done"} :
                  Cardinality(Positions(evs, {t})) <= 1
            /\ \A i, j \in DOMAIN evs :
                  i < j => /\ ~(evs[j].type = "queries_generated"
                                   /\ evs[i].type \in {"sources", "text"})
                           /\ ~(evs[j].type = "sources" /\ evs[i].type = "text")
                           /\ evs[i].type # "done"

\* A stream with all four kinds of event.
C8_Witness ==
    \E p \in Procs :
        /\ StreamEnded(p)
        /\ Len(events[p]) >= 5
        /\ events[p][1].type = "queries_generated"
        /\ events[p][2].type = "sources"
        /\ events[p][3].type = "text"
        /\ events[p][Len(events[p])].type = "done"

\* C9: a stream holds a sources event exactly if retrieve_context has
\* produced a non-empty retrieval_results, and the event carries the first
\* min(5, n) of the n results, in their order.
C9_SourcesCappedAtFive ==
    \A p \in Procs :
        Streaming(p)
            => LET srcs == OfType(events[p], "sources")
                   rr == IF run[p].retrieved THEN run[p].chan.retrieval_results[1] ELSE <<>>
               IN  IF rr = <<>>
                   THEN srcs = <<>>
                   ELSE /\ Len(srcs) = 1
                        /\ Len(srcs[1].sources) = Min(5, Len(rr))
                        /\ \A i \in 1..Min(5, Len(rr)) : srcs[1].sources[i] = Source(rr[i])

\* More than five passages were retrieved and the sources event was sent.
C9_Witness ==
    \E p \in Procs :
        /\ Streaming(p) /\ run[p].retrieved
        /\ Len(run[p].chan.retrieval_results[1]) > 5
        /\ Len(OfType(events[p], "sources")) = 1

\* C10: a call during which a store read or write failed tells its caller:
\* process_query returns success false, the stream holds an error event,
\* get_chat_history's answer says that it failed.
C10_StoreFailuresAreReported ==
    /\ \A p \in Procs :
          (Finished(p) /\ run[p].faulted)
              => IF result[p].op = "process_query"
                 THEN ~result[p].success
                 ELSE Positions(events[p], {"error"}) # {}
    /\ (hist.taken /\ hist.failed) => hist.error

\* C11: a request without a project id, or with the id of no project, is
\* answered as a caller error: process_query does not return success for a
\* missing project id, and the chat endpoints answer with the status their
\* validation raised (400 or 404), not with 500.
C11_InvalidScopeIsCallerError ==
    \A p \in Procs :
        /\ (pc[p] = "idle" /\ result[p].op = "process_query" /\ run[p].project_id = "")
              => ~result[p].success
        /\ (result[p].op \in Endpoints)
              => result[p].status = ValidateProject(run[p].project_id)

\* C12: on a thread that has no checkpoint yet, get_chat_history returns an
\* empty list and reports no error, and a first process_query (store
\* working) succeeds and leaves exactly its user message followed by its
\* assistant message as the thread's history.
C12_NewThreadNeedsNoSetup ==
    /\ (hist.taken /\ ~hist.failed /\ hist.at = 0)
          => (hist.messages = <<>> /\ ~hist.error)
    /\ (hist.taken /\ hist.at = 1 /\ faults = 0 /\ log[1].op = "process_query")
          => /\ log[1].success
             /\ hist.messages = << [type |-> "human", content |-> log[1].query],
                                   [type |-> "ai", content |-> log[1].response] >>

\* The history was read after the first process_query on a new thread.
C12_Witness ==
    /\ hist.taken /\ hist.at = 1 /\ faults = 0
    /\ log[1].op = "process_query" /\ log[1].success
    /\ Len(hist.messages) = 2
    /\ hist.messages[2].content = log[1].response

\* What get_chat_history reads from a checkpoint.
HistoryOf(st) == IF st.has THEN FormatMessages(st.values.messages) ELSE <<>>

IsPrefix(a, b) == Len(a) <= Len(b) /\ SubSeq(b, 1, Len(a)) = a

\* C13: over any sequence of blocking and streaming calls on a thread, with
\* degraded runs, store failures, abandoned streams and the re-persist after
\* a stream, every step leaves the thread's history an extension of what it
\* was: no message is removed, reordered or rewritten.
C13_HistoryIsAppendOnly ==
    [][IsPrefix(HistoryOf(store), HistoryOf(store'))]_vars

\* A streaming call and then a blocking call have left four messages.
C13_Witness ==
    /\ AllIdle /\ Len(log) = 2
    /\ log[1].op = "process_query_streaming" /\ log[2].op = "process_query"
    /\ Len(HistoryOf(store)) = 4

\* The channels without the ids add_messages has given the messages.
Persisted(values) == [values EXCEPT !.messages = FormatMessages(@)]

\* C14: applying a partial update to the thread state a second time changes
\* nothing: this holds for the update generate_response returns, and the
\* re-persist after a stream that was read to its end leaves the history at
\* the prior messages plus this run's user message and one assistant
\* message.
C14_UpdatesAreIdempotent ==
    \A p \in Procs :
        /\ pc[p] = "generate_response"
              => \A out \in FewGeneratorOutcomes :
                    LET update == GenerateResponseNode(run[p].chan, out)
                        once == ApplyWrites(run[p].chan, update, nextId)
                        twice == ApplyWrites(once, update, nextId + NewIds(update))
                    IN  Persisted(twice) = Persisted(once)
        /\ (StreamEnded(p) /\ ~run[p].faulted /\ ~run[p].closed /\ run[p].final # <<>>)
              => HistoryOf(store)
                    = FormatMessages(run[p].existing)
                        \o << [type |-> "human", content |-> run[p].query],
                              [type |-> "ai", content |-> run[p].final] >>

\* C15: when the consumer closes a stream after any event, the generator
\* raises no error to the closer (a closed stream delivers no event, so an
\* error can reach the consumer in no other way); when it has ended, the thread's history still begins with the prior history, and the
\* answer of a stage that had finished is persisted.
C15_DisconnectIsNormal ==
    \A p \in Procs :
        run[p].closed
            => /\ Positions(events[p], {"RuntimeError"}) = {}
               /\ (StreamEnded(p) /\ ~run[p].faulted)
                     => /\ IsPrefix(FormatMessages(run[p].existing), HistoryOf(store))
                        /\ run[p].answered
                              => HistoryOf(store)[Len(HistoryOf(store))]
                                    = [type |-> "ai", content |-> run[p].final]

\* Every user message is directly followed by an assistant message.
PairedTurns(messages) ==
    /\ Len(messages) % 2 = 0
    /\ \A i \in DOMAIN messages :
          messages[i].type = (IF i % 2 = 1 THEN "human" ELSE "ai")

\* C16: whatever get_chat_history reads, at any time, holds no user message
\* without the assistant message of the same run.
C16_TurnsArePersistedWhole ==
    (hist.taken /\ ~hist.failed) => PairedTurns(hist.messages)

\* C17: every call that has begun returns, also when a collaborator never
\* answers.
C17_EveryRunTerminates ==
    \A p \in Procs : (pc[p] = "load") ~> (pc[p] = "idle")

StageOrder == <<"generate_queries", "retrieve_context", "generate_response">>

NodesRun(p) == [i \in DOMAIN run[p].trace |-> run[p].trace[i].node]

\* C19: the stages a run has executed are always the first stages of
\* generate_queries, retrieve_context, generate_response, each once; the
\* stage a run stands at is the next of them; and a run that has its answer
\* has executed all three, also when stages fell back after an error.
C19_StagesRunInOrder ==
    \A p \in Procs :
        /\ IsPrefix(NodesRun(p), StageOrder)
        /\ \A k \in DOMAIN StageOrder :
              pc[p] = StageOrder[k] => Len(NodesRun(p)) = k - 1
        /\ run[p].answered => NodesRun(p) = StageOrder

\* A run in which the expander raised and the retriever found nothing has
\* executed the three stages in order.
C19_Witness ==
    \E p \in Procs :
        /\ pc[p] = "idle" /\ run[p].answered
        /\ run[p].expander = "raised"
        /\ run[p].chan.retrieval_results = Some(<<>>)
        /\ NodesRun(p) = StageOrder

\* The field each stage is to write.
OutputField(node) ==
    CASE node = "generate_queries" -> "generated_queries"
      [] node = "retrieve_context" -> "retrieval_results"
      [] node = "generate_response" -> "final_response"

OutputFields == {"generated_queries", "retrieval_results", "final_response"}

\* C20: of the three output fields, a stage writes its own only, so each
\* field is written at most once per run, also on the failure and
\* short-circuit paths of the stages.
C20_OutputFieldsAreWriteOnce ==
    \A p \in Procs :
        \A i \in DOMAIN run[p].trace :
            run[p].trace[i].keys \cap OutputFields
                \subseteq {OutputField(run[p].trace[i].node)}

\* The hits of the searches that did not fail, in the order of the searches.
RECURSIVE HitsOfSucceeded(_)
HitsOfSucceeded(searches) ==
    IF searches = <<>>
    THEN <<>>
    ELSE LET first == Head(searches)
         IN  (IF first.kind = "raise"
              THEN <<>>
              ELSE [k \in 1..first.n |-> Hit(first.query, k)])
             \o HitsOfSucceeded(Tail(searches))

\* C21: when retrieve_context has run with queries and a project id, the
\* retriever was called once for each generated query, in order, the stage
\* completed whatever searches failed, and retrieval_results is the
\* concatenation of the hits of the searches that succeeded.
C21_FailedSearchesAreSkipped ==
    \A p \in Procs :
        (run[p].retrieved /\ run[p].project_id # "" /\ Truthy(run[p].chan.generated_queries))
            => LET queries == run[p].chan.generated_queries[1]
                   searches == run[p].searches
               IN  /\ [i \in DOMAIN searches |-> searches[i].query] = queries
                   /\ run[p].chan.retrieval_results = Some(HitsOfSucceeded(searches))

\* The first of two searches failed, the second found passages, and the run
\* went on to its answer.
C21_Witness ==
    \E p \in Procs :
        /\ run[p].answered
        /\ Len(run[p].searches) = 2
        /\ run[p].searches[1].kind = "raise"
        /\ run[p].searches[2].kind = "ok" /\ run[p].searches[2].n = 2
        /\ Len(run[p].chan.retrieval_results[1]) = 2

\* C22: when the expander call succeeds, generated_queries is the user text
\* followed by every non-empty line of the expander's output, trimmed, in
\* output order, with no line dropped.
C22_EveryOutputLineIsAQuery ==
    \A p \in Procs :
        (run[p].lines # None /\ pc[p] \notin {"idle", "generate_queries"}
                /\ Truthy(run[p].chan.generated_queries))
            => run[p].chan.generated_queries[1] = <<run[p].query>> \o run[p].lines[1]

\* C23: whichever way generate_response ended (no-context fallback,
\* generator answer, generator failure), the thread's messages, as
\* aget_state reads them, are the earlier turns, the user message and
\* exactly one assistant message whose content is final_response; a
\* successful process_query returns that text as its response and a done
\* event carries it as its content.
C23_OneAnswerEverywhere ==
    \A p \in Procs :
        run[p].answered
            => LET thread == StateValues(store, nextId)
                   msgs == FormatMessages(thread.messages)
                   answer == thread.final_response[1]
               IN  /\ PairedTurns(msgs)
                   /\ SubSeq(msgs, Len(msgs) - 1, Len(msgs))
                         = << [type |-> "human", content |-> run[p].query],
                              [type |-> "ai", content |-> answer] >>
                   /\ (Finished(p) /\ result[p].op = "process_query" /\ result[p].success)
                         => result[p].response = answer
                   /\ \A i \in Positions(events[p], {"done"}) :
                         events[p][i].content = answer

\* A stream on a thread with an earlier turn whose generator failed: the
\* done event carries the technical fallback.
C23_Witness ==
    \E p \in Procs :
        /\ run[p].answered /\ run[p].existing # <<>>
        /\ store.values.final_response = Some(TechnicalIssueFallback(run[p].query))
        /\ Positions(events[p], {"done"}) # {}

\* The graph input of run p has been applied.
InputApplied(p) == run[p].chan.messages # <<>>

\* The nodes of run p that have written field f.
WritersOf(p, f) == {i \in DOMAIN run[p].trace : f \in run[p].trace[i].keys}

\* C24: once a run's input is applied, also on a thread that has an earlier
\* turn, each of generated_queries, retrieval_results and final_response is
\* empty until a node of this run writes it; and a run whose user text
\* differs from the earlier turn's returns no result and emits no event that
\* carries the earlier turn's queries or answer.
C24_RunFieldsAreReset ==
    \A p \in Procs :
        InputApplied(p)
            => /\ \A f \in OutputFields :
                     WritersOf(p, f) = {} => run[p].chan[f] = None
               /\ run[p].query # PriorTurn.messages[1].content
                     => /\ run[p].chan.generated_queries # PriorTurn.generated_queries
                        /\ run[p].chan.final_response # PriorTurn.final_response
                        /\ result[p].response # PriorTurn.final_response[1]
                        /\ result[p].generated_queries # PriorTurn.generated_queries[1]
                        /\ \A i \in DOMAIN events[p] :
                              /\ events[p][i].queries # PriorTurn.generated_queries[1]
                              /\ events[p][i].content # PriorTurn.final_response[1]

\* A run on a thread with an earlier turn stands before its first stage.
C24_Witness ==
    \E p \in Procs :
        /\ pc[p] = "generate_queries" /\ InputApplied(p)
        /\ run[p].existing = PriorTurn.messages
        /\ run[p].query # PriorTurn.messages[1].content

\* C25: get_chat_history returns the thread's messages oldest first, and
\* when a limit is given it returns at most that many messages.
C25_HistoryHonoursLimit ==
    (hist.taken /\ ~hist.failed)
        => /\ hist.messages = HistoryOf(store)
           /\ hist.limit # None => Len(hist.messages) <= hist.limit[1]

\* The contexts that have been entered at some time.
Entered == {k \in DOMAIN contexts : contexts[k].state # "new"}

\* The graphs compiled so far.
RECURSIVE GraphsCompiled(_)
GraphsCompiled(ctxs) ==
    IF ctxs = <<>> THEN 0 ELSE Head(ctxs).graphs + GraphsCompiled(Tail(ctxs))

\* C26: under any interleaving of concurrent first calls of process_query,
\* process_query_streaming and get_chat_history on an agent that is not
\* initialized, at most one graph is ever compiled and at most one context
\* is open; when no connection attempt fails the context is entered once;
\* and every call that goes on to use the checkpointer finds the one
\* compiled graph on an entered context.
C26_InitializedOnce ==
    /\ GraphsCompiled(contexts) <= 1
    /\ Cardinality({k \in DOMAIN contexts : contexts[k].state = "entered"}) <= 1
    /\ faults = 0 => Cardinality(Entered) <= 1
    /\ \A p \in Procs :
          (task[p].at = "request" \/ task[p].ran_on # "none")
              => /\ agent.is_initialized
                 /\ GraphsCompiled(contexts) = 1
                 /\ agent.graph = agent.checkpointer
                 /\ contexts[agent.checkpointer].state = "entered"
                 /\ task[p].ran_on \in {"none", "entered"}

\* Two calls found the agent uninitialized; one has initialized it and used
\* the checkpointer while the other still waits to enter initialize.
C26_Witness ==
    \E p, q \in Procs :
        /\ task[p].ran_on = "entered" /\ task[p].op = "process_query_streaming"
        /\ task[q].at = "acquire" /\ task[q].op = "get_chat_history"
        /\ agent.is_initialized /\ faults = 0

\* The checkpointer is there and its context is entered and not yet exited.
CheckpointerLive ==
    /\ agent.checkpointer # 0
    /\ contexts[agent.checkpointer].state \in {"entered", "exiting"}

\* C27: under any interleaving of initialize, cleanup and calls,
\* _is_initialized is set only while the checkpointer is present, its
\* context entered and not yet exited, and the graph compiled against it;
\* and no call that has passed _ensure_initialized runs against an absent
\* or closed checkpointer.
C27_InitializedMeansLive ==
    /\ agent.is_initialized => (CheckpointerLive /\ agent.graph = agent.checkpointer)
    /\ \A p \in Procs : task[p].ran_on \in {"none", "entered", "exiting"}

\* C28: once the consumer has closed the stream, at whichever yield, the
\* generator runs no further stage and reaches no further yield.
C28_ClosedStreamStops ==
    [][\A p \in Procs :
          (run[p].closed /\ run'[p].closed)
              => (run'[p].trace = run[p].trace /\ events'[p] = events[p])]_vars

\* A text whose non-empty trimmed lines are the given ones.
RECURSIVE JoinLines(_)
JoinLines(lines) ==
    IF lines = <<>> THEN <<>>
    ELSE IF Len(lines) = 1 THEN lines[1]
    ELSE lines[1] \o <<"NL">> \o JoinLines(Tail(lines))

\* What the collaborators did in run p, and the thread state the one call of
\* a behaviour of Spec began with.
Expanded(p) ==
    IF run[p].lines = None
    THEN [kind |-> "raise", content |-> <<>>]
    ELSE [kind |-> "ok", content |-> JoinLines(run[p].lines[1])]
Found(p) == [i \in DOMAIN run[p].searches |->
                [kind |-> run[p].searches[i].kind, n |-> run[p].searches[i].n]]
PriorValues(p) == IF run[p].existing = <<>> THEN EmptyChannels ELSE PriorTurn

\* The thread state graph.ainvoke leaves for the inputs of run p.
Reference(p) ==
    InvokeGraph(PriorValues(p), InitialState(p), Expanded(p), Found(p),
                run[p].answer[1], 3)

\* C29: with a working store, a stream read to its end and a process_query
\* call with the same prior thread state, query, scope and collaborator
\* behaviour give the same answer (the content of the done event is the
\* response), the same generated_queries, and leave the same persisted
\* messages and run fields.
C29_StreamingMatchesBlocking ==
    \A p \in Procs :
        (Finished(p) /\ faults = 0 /\ run[p].answered)
            => LET ref == Reference(p)
               IN  /\ Persisted(store.values) = Persisted(ref)
                   /\ store.writes = None
                   /\ result[p].op = "process_query"
                         => /\ result[p].response = ref.final_response[1]
                            /\ result[p].generated_queries = ref.generated_queries[1]
                   /\ result[p].op = "process_query_streaming"
                         => /\ \E i \in DOMAIN events[p] :
                                  /\ events[p][i].type = "done"
                                  /\ events[p][i].content = ref.final_response[1]
                            /\ \E i \in DOMAIN events[p] :
                                  /\ events[p][i].type = "queries_generated"
                                  /\ events[p][i].queries = ref.generated_queries[1]

\* C30: for every stream of the engine that has ended, what
\* generate_streaming_response sends to the client carries an error event
\* when the engine's stream did, ends with a done or an error event, and an
\* assistant message is saved exactly when a done event with a non-empty
\* content was received.
C30_AdapterForwardsTerminalEvents ==
    \A p \in Procs :
        StreamEnded(p)
            => LET out == GenerateStreamingResponse(run[p].query, events[p])
                   dones == {i \in Positions(events[p], {"done"}) : events[p][i].content # <<>>}
               IN  /\ Positions(events[p], {"error"}) # {}
                         => Positions(out.sent, {"error"}) # {}
                   /\ out.sent # <<>>
                   /\ out.sent[Len(out.sent)].type \in {"done", "error"}
                   /\ (\E i \in DOMAIN out.saved : out.saved[i].role = "assistant")
                         <=> dones # {}

====
